---- MODULE Spec2Model ----
(***************************************************************************)
(* WhatsApp Gateway (fastapi/app/main.py, fastapi/app/main.old.py).        *)
(*                                                                         *)
(* The gateway is a set of HTTP handlers in front of two collaborators:    *)
(* a Redis server (the message queue / stream) and the Baileys connector.  *)
(* The model has five specifications over one state:                       *)
(*   Spec         the legacy list queue under concurrent appends and pops  *)
(*   SpecPeek     peek and queue_status on lists up to past the window     *)
(*   SpecStream   the stream: id assignment and stream_read pagination     *)
(*   SpecGateway  health() and the connection-bound operations             *)
(*   SpecWebhook  the delivery of one event to one webhook subscriber      *)
(***************************************************************************)
EXTENDS Integers, Sequences, FiniteSets, TLC

VARIABLES
    queue,        \* the Redis list QUEUE_KEY, index 1 = head (left end)
    nextId,       \* identity of the next envelope pushed on the list
    popH,         \* per pop request: the handler's position and locals
    peekH,        \* the last peek request and its response
    statusH,      \* the last queue_status response
    appended,     \* every list element ever pushed
    received,     \* received[id] = how many times a pop response carried id
    stream,       \* the Redis stream STREAM_KEY, oldest entry first
    clock,        \* the store's millisecond clock
    appH,         \* per append call: its position and the id it got back
    readH,        \* the paginating stream reader
    healthH,      \* the health() handler
    opH,          \* the last connection-bound request and its response
    hookH,        \* the delivery of one event to one subscriber
    hookNow       \* the dispatcher's clock, in backoff units

queueVars   == <<queue, nextId, popH, peekH, statusH, appended, received>>
streamVars  == <<stream, clock, appH, readH>>
gatewayVars == <<healthH, opH>>
webhookVars == <<hookH, hookNow>>
vars        == <<queue, nextId, popH, peekH, statusH, appended, received,
                 stream, clock, appH, readH, healthH, opH, hookH, hookNow>>

(***************************************************************************)
(* Bounds of the model.                                                    *)
(***************************************************************************)
MaxAppends     == 3    \* envelopes pushed on the list under Spec
MaxPeekQueue   == 101  \* longest list peeked at under SpecPeek
MaxStream      == 4    \* entries added to the stream
MaxClock       == 2    \* last value of the store's clock
MaxAttempts    == 5    \* delivery attempts per event and subscriber ("e.g., 5")
BaseInterval   == 1    \* the first backoff interval, in clock units
DeliveryTimeout == 1   \* longest a delivery attempt may stay in flight

(***************************************************************************)
(* Program constants.                                                      *)
(***************************************************************************)
PopCountMax    == 100  \* pop:  count: int = Query(10, ge=1, le=100)
PopCountMin    == 1
PeekEndMax     == 99   \* peek: end: int = Query(9, le=99)
ReadCountMax   == 100  \* stream_read: count: int = Query(10, ge=1, le=100)

PopCallers == {"p1", "p2"}

(***************************************************************************)
(* Redis list values.  A list element is the raw string the producer       *)
(* pushed; raw says what json.loads and Python truthiness make of it.      *)
(***************************************************************************)
RawKinds == {"json", "bad"}
Nil      == [id |-> 0, raw |-> "nil"]          \* the reply None

\* `if r` / `if i` in the list comprehensions: None and "" are dropped
\* (the producer pushes no "", so only None is met).
Truthy(r) == r.raw \notin {"nil", "empty"}

\* json.loads(r): the envelope, or ValueError.
JsonLoads(r) == [ok |-> r.raw = "json", value |-> [id |-> r.id]]

\* [json.loads(r) for r in results if r]: the decoded values of the truthy
\* results, in the order of results; raises when one of them does not decode.
DecodeAll(results) ==
    LET kept == SelectSeq(results, Truthy)
    IN  IF \E i \in 1..Len(kept) : ~JsonLoads(kept[i]).ok
        THEN [ok |-> FALSE, msgs |-> <<>>]
        ELSE [ok |-> TRUE, msgs |-> [i \in 1..Len(kept) |-> JsonLoads(kept[i]).value]]

(***************************************************************************)
(* Redis list commands: each maps the list to a reply and the new list.    *)
(***************************************************************************)
\* LPUSH key value
LPush(list, item) == [reply |-> Len(list) + 1, list |-> <<item>> \o list]

\* A faulty RPOP that reads the tail and leaves it in place.
RPopKeep(list) ==
    IF list = <<>> THEN [reply |-> Nil, list |-> list]
    ELSE [reply |-> list[Len(list)], list |-> list]

\* A faulty RPOP that takes the head (LPOP).
RPopHead(list) ==
    IF list = <<>> THEN [reply |-> Nil, list |-> list]
    ELSE [reply |-> Head(list), list |-> Tail(list)]

\* RPOP key
RPop(list) ==
    IF list = <<>> THEN [reply |-> Nil, list |-> list]
    ELSE [reply |-> list[Len(list)], list |-> SubSeq(list, 1, Len(list) - 1)]

\* LLEN key
LLen(list) == [reply |-> Len(list), list |-> list]

\* A faulty LRANGE that removes what it reads.
LRangeTake(list, start, end) ==
    LET n  == Len(list)
        s0 == IF start < 0 THEN n + start ELSE start
        e0 == IF end < 0 THEN n + end ELSE end
        s  == IF s0 < 0 THEN 0 ELSE s0
        e  == IF e0 >= n THEN n - 1 ELSE e0
    IN  IF s > e \/ s >= n THEN [reply |-> <<>>, list |-> list]
        ELSE [reply |-> SubSeq(list, s + 1, e + 1),
              list  |-> SubSeq(list, 1, s) \o SubSeq(list, e + 2, n)]

\* LRANGE key start end: zero-based, inclusive, negative = from the tail.
LRange(list, start, end) ==
    LET n  == Len(list)
        s0 == IF start < 0 THEN n + start ELSE start
        e0 == IF end < 0 THEN n + end ELSE end
        s  == IF s0 < 0 THEN 0 ELSE s0
        e  == IF e0 >= n THEN n - 1 ELSE e0
    IN  [reply |-> IF s > e \/ s >= n THEN <<>> ELSE SubSeq(list, s + 1, e + 1),
         list  |-> list]

\* pipeline = redis_client.pipeline(); count times pipeline.rpop(QUEUE_KEY);
\* await pipeline.execute(): the queued commands run as one MULTI/EXEC.
\* The commands run one after the other, each on the list the one before
\* left (evaluated by halves, which is the same sequential composition).
RECURSIVE PipelineExecute(_, _)
PipelineExecute(list, count) ==
    IF count = 0 THEN [results |-> <<>>, list |-> list]
    ELSE IF count = 1
    THEN LET r == RPop(list) IN [results |-> <<r.reply>>, list |-> r.list]
    ELSE LET h     == count \div 2
             first == PipelineExecute(list, h)
             rest  == PipelineExecute(first.list, count - h)
         IN  [results |-> first.results \o rest.results, list |-> rest.list]

(***************************************************************************)
(* Helpers over sequences of list elements and envelopes.                  *)
(***************************************************************************)
Ids(seq)      == {seq[i].id : i \in 1..Len(seq)}
Min(a, b)     == IF a <= b THEN a ELSE b
AllJson(list) == \A i \in 1..Len(list) : list[i].raw = "json"
Removed(results) == {results[i].id : i \in {j \in 1..Len(results) : results[j] # Nil}}

(***************************************************************************)
(* The producer (the connector) pushes the next inbound event on the head  *)
(* of the list; the gateway only ever reads the list from there.           *)
(***************************************************************************)
Push(raw, max) ==
    /\ nextId <= max
    /\ LET item == [id |-> nextId, raw |-> raw]
       IN  /\ queue'    = LPush(queue, item).list
           /\ appended' = appended \cup {item}
           /\ received' = received @@ (nextId :> 0)
    /\ nextId' = nextId + 1
    /\ UNCHANGED <<popH, peekH, statusH, streamVars, gatewayVars, webhookVars>>

AppendEnvelope(raw) == Push(raw, MaxAppends)

(***************************************************************************)
(* POST /messages/pop                                                      *)
(***************************************************************************)
PopIdle == [pc |-> "idle", count |-> 0, results |-> <<>>, msgs |-> <<>>,
            err |-> "none", overlapped |-> FALSE]

\* The counts the model tries: the small ones and the largest accepted.
PopCounts == {c \in PopCountMin..PopCountMax : c <= 2 \/ c = PopCountMax}

InFlight(p) == popH[p].pc \in {"pending", "executed"}

\* The request is accepted (1 <= count <= 100) and the pipeline is built.
PopCall(p, count) ==
    /\ ~InFlight(p)
    /\ count \in PopCountMin..PopCountMax
    /\ popH' = [popH EXCEPT ![p] =
                  [PopIdle EXCEPT !.pc = "pending", !.count = count,
                                  !.overlapped = \E q \in PopCallers \ {p} : InFlight(q)]]
    /\ UNCHANGED <<queue, nextId, peekH, statusH, appended, received,
                   streamVars, gatewayVars, webhookVars>>

\* await pipeline.execute(): the server runs the queued RPOPs.
PopExecute(p) ==
    /\ popH[p].pc = "pending"
    /\ LET x == PipelineExecute(queue, popH[p].count)
       IN  /\ queue' = x.list
           /\ popH'  = [popH EXCEPT ![p].pc = "executed", ![p].results = x.results]
    /\ UNCHANGED <<nextId, peekH, statusH, appended, received, streamVars, gatewayVars, webhookVars>>

\* pipeline.execute() raises before the server ran anything (store down).
PopStoreError(p) ==
    /\ popH[p].pc = "pending"
    /\ popH' = [popH EXCEPT ![p].pc = "failed", ![p].err = "store_error"]
    /\ UNCHANGED <<queue, nextId, peekH, statusH, appended, received,
                   streamVars, gatewayVars, webhookVars>>

\* msgs = [json.loads(r) for r in results if r]; return {"messages": msgs, ...}
PopReturn(p) ==
    /\ popH[p].pc = "executed"
    /\ LET d == DecodeAll(popH[p].results)
       IN  /\ d.ok
           /\ popH' = [popH EXCEPT ![p].pc = "returned", ![p].msgs = d.msgs]
           /\ received' = [i \in DOMAIN received |->
                             received[i] + Cardinality({k \in 1..Len(d.msgs) : d.msgs[k].id = i})]
    /\ UNCHANGED <<queue, nextId, peekH, statusH, appended, streamVars, gatewayVars, webhookVars>>

\* json.loads raises on a removed value: the handler ends with the error.
PopDecodeError(p) ==
    /\ popH[p].pc = "executed"
    /\ ~DecodeAll(popH[p].results).ok
    /\ popH' = [popH EXCEPT ![p].pc = "failed", ![p].err = "decode_error"]
    /\ UNCHANGED <<queue, nextId, peekH, statusH, appended, received,
                   streamVars, gatewayVars, webhookVars>>

\* The request is cancelled while it awaits the reply of execute(), or the
\* reply is lost with the connection: the server has run the commands.
PopCancelled(p) ==
    /\ popH[p].pc = "executed"
    /\ popH' = [popH EXCEPT ![p].pc = "failed", ![p].err = "cancelled"]
    /\ UNCHANGED <<queue, nextId, peekH, statusH, appended, received,
                   streamVars, gatewayVars, webhookVars>>

(***************************************************************************)
(* GET /messages/peek and GET /messages/status                             *)
(***************************************************************************)
PeekIdle == [pc |-> "idle", start |-> 0, end |-> 0, msgs |-> <<>>, count |-> 0, n |-> 0]

\* The windows the model tries; end is any integer <= 99, start any integer.
PeekStarts == {-2, -1, 0, 1}
PeekEnds   == {-1, 0, 1, 9, PeekEndMax}

Peek(start, end) ==
    /\ end <= PeekEndMax
    /\ LET r == LRange(queue, start, end)
           d == DecodeAll(r.reply)
       IN  /\ queue' = r.list
           /\ peekH' = IF d.ok
                       THEN [pc |-> "returned", start |-> start, end |-> end,
                             msgs |-> d.msgs, count |-> Len(d.msgs), n |-> Len(queue)]
                       ELSE [PeekIdle EXCEPT !.pc = "failed", !.start = start,
                                             !.end = end, !.n = Len(queue)]
    /\ UNCHANGED <<nextId, popH, statusH, appended, received, streamVars, gatewayVars, webhookVars>>

QueueStatus ==
    /\ LET r == LLen(queue)
       IN  /\ queue'   = r.list
           /\ statusH' = [pc |-> "returned", queue_length |-> r.reply]
    /\ UNCHANGED <<nextId, popH, peekH, appended, received, streamVars, gatewayVars, webhookVars>>

(***************************************************************************)
(* The stream (main.old.py).  The gateway forwards stream_read to the      *)
(* connector; the stream itself, its ids and its range read live in the    *)
(* store behind the connector and are modelled from their contract.        *)
(***************************************************************************)
Appenders  == {"a1", "a2"}
ZeroId     == <<0, 0>>
IdLess(a, b) == a[1] < b[1] \/ (a[1] = b[1] /\ a[2] < b[2])

LastStreamId == IF stream = <<>> THEN ZeroId ELSE stream[Len(stream)].id

\* An id generator that reads the clock alone.
ClockOnlyId(last, now) == <<now, 0>>

\* The next id `<timestamp>-<sequence>`: the clock's millisecond with
\* sequence 0 when the clock has moved past the last id, otherwise the last
\* id's millisecond with the next sequence number.
NextStreamId(last, now) ==
    IF now > last[1] THEN <<now, 0>> ELSE <<last[1], last[2] + 1>>

\* lastId as the connector reads it: "0" is the sentinel for the beginning.
ParseLastId(lastId) == IF lastId = "0" THEN ZeroId ELSE lastId

\* The entries strictly after lastId, oldest first, at most count of them.
ReadAfter(entries, lastId, count) ==
    LET after(e) == IdLess(ParseLastId(lastId), e.id)
        rest     == SelectSeq(entries, after)
    IN  SubSeq(rest, 1, Min(count, Len(rest)))

\* A query that drops the caller's cursor.
StreamReadQueryNoCursor(count, lastId) == [count |-> count, lastId |-> "0"]

\* f"/messages/stream/read?count={count}&lastId={lastId}"
StreamReadQuery(count, lastId) == [count |-> count, lastId |-> lastId]

ReadCounts == {c \in 1..ReadCountMax : c <= 2 \/ c = ReadCountMax}

InitStream ==
    /\ stream = <<>>
    /\ clock  = 0
    /\ appH   = [a \in Appenders |-> [pc |-> "idle", id |-> ZeroId]]
    /\ readH  = [pc |-> "idle", cursor |-> "0", seen |-> <<>>, pages |-> 0,
                 emptyAt |-> -1]

Tick ==
    /\ clock < MaxClock
    /\ clock' = clock + 1
    /\ UNCHANGED <<stream, appH, readH, queueVars, gatewayVars, webhookVars>>

AppendCall(a) ==
    /\ appH[a].pc # "pending"
    /\ Len(stream) + Cardinality({b \in Appenders : appH[b].pc = "pending"}) < MaxStream
    /\ appH' = [appH EXCEPT ![a] = [pc |-> "pending", id |-> ZeroId]]
    /\ UNCHANGED <<stream, clock, readH, queueVars, gatewayVars, webhookVars>>

\* The store takes the append: it assigns the id, persists the entry and
\* answers with the id.  n is the entry's place in ingestion order.
AppendStore(a) ==
    /\ appH[a].pc = "pending"
    /\ LET id == NextStreamId(LastStreamId, clock)
       IN  /\ stream' = stream \o <<[id |-> id, n |-> Len(stream) + 1]>>
           /\ appH'   = [appH EXCEPT ![a] = [pc |-> "returned", id |-> id]]
    /\ UNCHANGED <<clock, readH, queueVars, gatewayVars, webhookVars>>

\* GET /messages/stream/read: the reader passes the id of the last envelope
\* it got (or "0"), the gateway forwards the query and returns the answer.
StreamRead(count) ==
    /\ count \in 1..ReadCountMax
    /\ LET q   == StreamReadQuery(count, readH.cursor)
           res == ReadAfter(stream, q.lastId, q.count)
       IN  readH' = [pc      |-> "returned",
                     cursor  |-> IF res = <<>> THEN readH.cursor ELSE res[Len(res)].id,
                     seen    |-> readH.seen \o res,
                     pages   |-> IF res = <<>> THEN readH.pages ELSE readH.pages + 1,
                     emptyAt |-> IF res = <<>> THEN Len(stream) ELSE readH.emptyAt]
    /\ UNCHANGED <<stream, clock, appH, queueVars, gatewayVars, webhookVars>>

\* baileys_get raises (connector down): the request fails, nothing is read.
StreamReadFail ==
    /\ readH' = [readH EXCEPT !.pc = "failed"]
    /\ UNCHANGED <<stream, clock, appH, queueVars, gatewayVars, webhookVars>>

(***************************************************************************)
(* The connector behind BAILEYS_URL, as one HTTP exchange can end: an      *)
(* answer with a status code (json: its body parses; qr: it carries a QR   *)
(* string), no connection, or no answer within the client's timeout.       *)
(***************************************************************************)
ConnOutcomes ==
    {[kind |-> "ok", code |-> 200, json |-> TRUE, qr |-> q] : q \in BOOLEAN}
    \cup {[kind |-> "ok", code |-> 200, json |-> FALSE, qr |-> FALSE]}
    \cup {[kind |-> "http_error", code |-> c, json |-> j, qr |-> FALSE] :
             c \in {404, 500}, j \in BOOLEAN}
    \cup {[kind |-> k, code |-> 0, json |-> FALSE, qr |-> FALSE] :
             k \in {"connect_error", "timeout"}}

\* The Redis PING as it can end.
PingOutcomes == {"ok", "error", "timeout"}

\* r = await c.get/post(...); r.raise_for_status(); return r.json()
\* exc is the exception that leaves the helper, "none" when it returns.
BaileysRequest(o) ==
    IF o.kind \in {"connect_error", "timeout"} THEN [exc |-> "TransportError", code |-> 0]
    ELSE IF o.kind = "http_error" THEN [exc |-> "HTTPStatusError", code |-> o.code]
    ELSE IF ~o.json THEN [exc |-> "ValueError", code |-> 0]
    ELSE [exc |-> "none", code |-> o.code]

\* logout: r = await c.delete(...); return r.json()   (no raise_for_status)
BaileysDeleteUnchecked(o) ==
    IF o.kind \in {"connect_error", "timeout"} THEN [exc |-> "TransportError", code |-> 0]
    ELSE IF ~o.json THEN [exc |-> "ValueError", code |-> 0]
    ELSE [exc |-> "none", code |-> o.code]

\* The status the caller sees: 200 when the handler returns, the code of
\* the HTTPException it raises, 500 when another exception escapes it.
Unavailable == 503   \* raise HTTPException(503, ...)

\* status(): try: return await baileys_get("/status")
\*           except Exception: raise HTTPException(503, ...)
StatusResponse(o) ==
    IF BaileysRequest(o).exc = "none" THEN 200 ELSE Unavailable

\* get_qrcode(): except httpx.HTTPStatusError as e:
\*                   raise HTTPException(e.response.status_code, ...)
\*               except Exception: raise HTTPException(503, ...)
QrcodeResponse(o) ==
    LET r == BaileysRequest(o)
    IN  IF r.exc = "none" THEN 200
        ELSE IF r.exc = "HTTPStatusError" THEN r.code
        ELSE Unavailable

\* qrcode_image(): the HTTPException(404) raised inside the try is caught by
\* its own `except Exception` and becomes a 503.
QrcodeImageResponse(o) ==
    IF BaileysRequest(o).exc = "none" /\ o.qr THEN 200 ELSE Unavailable

\* logout(): no try/except.
LogoutResponse(o) ==
    IF BaileysDeleteUnchecked(o).exc = "none" THEN 200 ELSE 500

\* send_* and *_click: return await baileys_post(path, b.model_dump())
SendResponse(o) ==
    IF BaileysRequest(o).exc = "none" THEN 200 ELSE 500

SendOps == {"send_text", "send_image", "send_buttons", "send_list",
            "send_template", "send_reaction", "button_click", "list_click"}
ConnectionOps == {"status", "qrcode", "qrcode_image", "logout"} \cup SendOps

Response(op, o) ==
    CASE op = "status"       -> StatusResponse(o)
      [] op = "qrcode"       -> QrcodeResponse(o)
      [] op = "qrcode_image" -> QrcodeImageResponse(o)
      [] op = "logout"       -> LogoutResponse(o)
      [] OTHER               -> SendResponse(o)

\* One connection-bound request, from its arrival to its response.
ConnectionOp(op, o) ==
    /\ opH' = [pc |-> "done", op |-> op, outcome |-> o, status |-> Response(op, o)]
    /\ UNCHANGED <<healthH, queueVars, streamVars, webhookVars>>

(***************************************************************************)
(* GET /health                                                             *)
(***************************************************************************)
\* A probe without the except clause.
TryProbeUncaught(succeeded) == [flag |-> succeeded, raised |-> ~succeeded]

\* flag = False; try: await probe; flag = True; except Exception: pass
TryProbe(succeeded) == [flag |-> succeeded, raised |-> FALSE]

\* A report that calls one working dependency healthy.
HealthReportAny(redis_ok, baileys_ok) ==
    [status  |-> IF redis_ok \/ baileys_ok THEN "healthy" ELSE "degraded",
     redis   |-> IF redis_ok THEN "ok" ELSE "error",
     baileys |-> IF baileys_ok THEN "ok" ELSE "error"]

HealthReport(redis_ok, baileys_ok) ==
    [status  |-> IF redis_ok /\ baileys_ok THEN "healthy" ELSE "degraded",
     redis   |-> IF redis_ok THEN "ok" ELSE "error",
     baileys |-> IF baileys_ok THEN "ok" ELSE "error"]

NoOutcome  == [kind |-> "none", code |-> 0, json |-> FALSE, qr |-> FALSE]
NoReport   == [status |-> "none", redis |-> "none", baileys |-> "none"]
HealthIdle == [pc |-> "idle", ping |-> "none", conn |-> NoOutcome,
               redis_ok |-> FALSE, baileys_ok |-> FALSE, report |-> NoReport]

\* A request arrives and the first probe runs: await redis_client.ping()
HealthRedisProbe(ping) ==
    /\ healthH.pc \in {"idle", "returned", "raised"}
    /\ LET t == TryProbe(ping = "ok")
       IN  healthH' = [HealthIdle EXCEPT !.pc = IF t.raised THEN "raised" ELSE "redis_probed",
                                         !.ping = ping, !.redis_ok = t.flag]
    /\ UNCHANGED <<opH, queueVars, streamVars, webhookVars>>

\* The second probe: await baileys_get("/status")
HealthBaileysProbe(o) ==
    /\ healthH.pc = "redis_probed"
    /\ LET t == TryProbe(BaileysRequest(o).exc = "none")
       IN  healthH' = [healthH EXCEPT !.pc = IF t.raised THEN "raised" ELSE "baileys_probed",
                                      !.conn = o, !.baileys_ok = t.flag]
    /\ UNCHANGED <<opH, queueVars, streamVars, webhookVars>>

HealthReturn ==
    /\ healthH.pc = "baileys_probed"
    /\ healthH' = [healthH EXCEPT !.pc = "returned",
                                  !.report = HealthReport(healthH.redis_ok, healthH.baileys_ok)]
    /\ UNCHANGED <<opH, queueVars, streamVars, webhookVars>>

InitGateway ==
    /\ healthH = HealthIdle
    /\ opH     = [pc |-> "idle", op |-> "none", outcome |-> NoOutcome, status |-> 0]


(***************************************************************************)
(* The webhook dispatcher.  The gateway only forwards register/unregister  *)
(* to the connector (main.old.py, the webhooks routes); the delivery loop  *)
(* runs behind it and is modelled from its contract: per subscriber, event *)
(*   Idle -> Delivering -> {Acked, Retrying -> Delivering, Exhausted}      *)
(* with exponential backoff and a capped number of attempts.               *)
(***************************************************************************)
RECURSIVE Pow2(_)
Pow2(n) == IF n = 0 THEN 1 ELSE 2 * Pow2(n - 1)

\* A backoff that waits the same interval every time.
FixedBackoff(failures) == BaseInterval

\* The wait after the failures-th failed attempt: exponential, starting at
\* the base interval.
Backoff(failures) == BaseInterval * Pow2(failures - 1)

\* A dispatcher that keeps the delivery obligation after the ack.
AfterSuccessRetry(h) ==
    [h EXCEPT !.pc = "Retrying", !.delivered = h.delivered + 1,
              !.failedAt = hookNow, !.retryAt = hookNow]

\* The subscriber answered 2xx: the delivery is recorded and the event
\* leaves this subscriber's obligations.
AfterSuccess(h) == [h EXCEPT !.pc = "Acked", !.delivered = h.delivered + 1]

\* The attempt failed (error answer, or cancelled at its timeout): it has
\* used one retry slot; retry after the backoff, or give up at the cap.
AfterFailure(h) ==
    IF h.attempts < MaxAttempts
    THEN [h EXCEPT !.pc = "Retrying", !.failedAt = hookNow,
                   !.retryAt = hookNow + Backoff(h.attempts)]
    ELSE [h EXCEPT !.pc = "Exhausted"]

HookIdle == [pc |-> "Idle", k |-> 0, attempts |-> 0, delivered |-> 0,
             startedAt |-> 0, failedAt |-> 0, retryAt |-> 0, intervals |-> <<>>]

InitWebhook ==
    /\ hookH   = HookIdle
    /\ hookNow = 0

\* A new envelope is appended and the subscriber's first attempt starts.
\* k is the subscriber's endpoint: it fails the first k attempts made on it.
Schedule(k) ==
    /\ hookH.pc = "Idle"
    /\ hookH'   = [hookH EXCEPT !.pc = "Delivering", !.k = k, !.attempts = 1,
                                !.startedAt = hookNow]
    /\ UNCHANGED <<hookNow, queueVars, streamVars, gatewayVars>>

\* Time passes while the POST is in flight, up to the delivery timeout.
DeliverTick ==
    /\ hookH.pc = "Delivering"
    /\ hookNow - hookH.startedAt < DeliveryTimeout
    /\ hookNow' = hookNow + 1
    /\ UNCHANGED <<hookH, queueVars, streamVars, gatewayVars>>

AttemptSucceeds ==
    /\ hookH.pc = "Delivering"
    /\ hookH.attempts > hookH.k
    /\ hookH' = AfterSuccess(hookH)
    /\ UNCHANGED <<hookNow, queueVars, streamVars, gatewayVars>>

\* The endpoint answers with an error before the timeout.
AttemptFails ==
    /\ hookH.pc = "Delivering"
    /\ hookH.attempts <= hookH.k
    /\ hookNow - hookH.startedAt < DeliveryTimeout
    /\ hookH' = AfterFailure(hookH)
    /\ UNCHANGED <<hookNow, queueVars, streamVars, gatewayVars>>

\* The attempt exceeds its timeout: cancelled and counted as failed.
AttemptTimesOut ==
    /\ hookH.pc = "Delivering"
    /\ hookH.attempts <= hookH.k
    /\ hookNow - hookH.startedAt >= DeliveryTimeout
    /\ hookH' = AfterFailure(hookH)
    /\ UNCHANGED <<hookNow, queueVars, streamVars, gatewayVars>>

\* Time passes while the dispatcher waits out the backoff.
BackoffTick ==
    /\ hookH.pc = "Retrying"
    /\ hookNow < hookH.retryAt
    /\ hookNow' = hookNow + 1
    /\ UNCHANGED <<hookH, queueVars, streamVars, gatewayVars>>

\* The backoff is over: the next attempt starts.  intervals records the
\* time waited since the failure.
Retry ==
    /\ hookH.pc = "Retrying"
    /\ hookNow >= hookH.retryAt
    /\ hookH' = [hookH EXCEPT !.pc = "Delivering", !.attempts = hookH.attempts + 1,
                              !.startedAt = hookNow,
                              !.intervals = Append(hookH.intervals, hookNow - hookH.failedAt)]
    /\ UNCHANGED <<hookNow, queueVars, streamVars, gatewayVars>>

(***************************************************************************)
(* Initial state: the store is empty and no request has been made.         *)
(***************************************************************************)
Init ==
    /\ queue    = <<>>
    /\ nextId   = 1
    /\ popH     = [p \in PopCallers |-> PopIdle]
    /\ peekH    = PeekIdle
    /\ statusH  = [pc |-> "idle", queue_length |-> 0]
    /\ appended = {}
    /\ received = <<>>
    /\ InitStream
    /\ InitGateway
    /\ InitWebhook

(***************************************************************************)
(* Spec: the list queue under concurrent producers and pop requests.       *)
(***************************************************************************)
Next ==
    \/ \E raw \in RawKinds : AppendEnvelope(raw)
    \/ \E p \in PopCallers, c \in PopCounts : PopCall(p, c)
    \/ \E p \in PopCallers : PopExecute(p)
    \/ \E p \in PopCallers : PopStoreError(p)
    \/ \E p \in PopCallers : PopReturn(p)
    \/ \E p \in PopCallers : PopDecodeError(p)
    \/ \E p \in PopCallers : PopCancelled(p)

Spec == Init /\ [][Next]_vars

(***************************************************************************)
(* Claims about the list queue.                                            *)
(***************************************************************************)
NotNil(r)       == r # Nil
EnvelopesOf(rs) == [i \in 1..Len(rs) |-> [id |-> rs[i].id]]
Increasing(rs)  == \A i, j \in 1..Len(rs) : i < j => rs[i].id < rs[j].id
\* The ids of the k elements of list that were pushed first.
Oldest(list, k) == {i \in Ids(list) : Cardinality({j \in Ids(list) : j < i}) < k}

\* C1: pop(count) on a store of L envelopes removes and returns exactly the
\* min(count, L) oldest ones, oldest first, leaves L - min(count, L) in the
\* store, and on an empty store returns an empty sequence without an error.
C1_PopReturnsOldest ==
    [][\A p \in PopCallers :
         /\ (PopExecute(p) /\ AllJson(queue)) =>
                LET L   == Len(queue)
                    k   == Min(popH[p].count, L)
                    got == SelectSeq(popH'[p].results, NotNil)
                IN  /\ Len(queue') = L - k
                    /\ Len(got) = k
                    /\ Ids(got) = Oldest(queue, k)
                    /\ Increasing(got)
                    /\ Ids(queue') = Ids(queue) \ Ids(got)
         /\ (popH[p].pc = "executed" /\ popH'[p].pc # "executed"
                /\ AllJson(SelectSeq(popH[p].results, NotNil))) =>
                /\ ~PopDecodeError(p)
                /\ PopReturn(p) =>
                       popH'[p].msgs = EnvelopesOf(SelectSeq(popH[p].results, NotNil))
      ]_vars

\* pop(2) on three envelopes has returned the two oldest and left one.
C1_Witness ==
    \E p \in PopCallers :
        /\ popH[p].pc = "returned" /\ popH[p].count = 2
        /\ popH[p].msgs = <<[id |-> 1], [id |-> 2]>>
        /\ queue = <<[id |-> 3, raw |-> "json"]>>

EnvelopeIds(items) == {x.id : x \in {y \in items : y.raw = "json"}}
QueueItems         == {queue[i] : i \in 1..Len(queue)}
ReceivedIds        == {i \in DOMAIN received : received[i] > 0}

\* C2: after any sequence of append and pop calls no envelope was returned
\* twice, and the envelopes returned together with those still in the store
\* are all the envelopes appended.
C2_NoDuplicateNoneLost ==
    /\ \A i \in DOMAIN received : received[i] <= 1
    /\ (\A p \in PopCallers : ~InFlight(p)) =>
           ReceivedIds \cup EnvelopeIds(QueueItems) = EnvelopeIds(appended)

Batch(p) == IF popH[p].pc = "returned" THEN Ids(popH[p].msgs) ELSE {}

\* C3: the batches two pop calls receive are disjoint, also when the calls'
\* store operations interleave with each other and with appends.
C3_ConcurrentPopsDisjoint ==
    \A p, q \in PopCallers : p # q => Batch(p) \cap Batch(q) = {}

\* Two pop calls that overlapped in time have both returned envelopes.
C3_Witness ==
    /\ popH["p1"].pc = "returned" /\ popH["p1"].msgs # <<>>
    /\ popH["p2"].pc = "returned" /\ popH["p2"].msgs # <<>>
    /\ popH["p2"].overlapped

\* C4: a pop call that has ended, normally or not, removed from the store
\* exactly the items it returned to its caller, and what it returned is no
\* longer in the store.
C4_NoPartialRemoval ==
    \A p \in PopCallers :
        popH[p].pc \in {"returned", "failed"} =>
            /\ Removed(popH[p].results) = Ids(popH[p].msgs)
            /\ Ids(popH[p].msgs) \cap Ids(queue) = {}

(***************************************************************************)
(* SpecPeek: peek and queue_status on a list the producer has filled.      *)
(***************************************************************************)
\* The list after n pushes: ids 1..n, the newest at the head; last is the
\* raw kind of the newest element.
Filled(n, last) ==
    [i \in 1..n |-> [id |-> n - i + 1, raw |-> IF i = 1 THEN last ELSE "json"]]

\* The list lengths tried: the short ones and those around the window.
PeekLens == {n \in 0..MaxPeekQueue : n <= 3 \/ n >= MaxPeekQueue - 1}

InitPeek ==
    /\ \E n \in PeekLens, last \in RawKinds :
          /\ queue    = Filled(n, last)
          /\ nextId   = n + 1
          /\ appended = {Filled(n, last)[i] : i \in 1..n}
          /\ received = [i \in 1..n |-> 0]
    /\ popH     = [p \in PopCallers |-> PopIdle]
    /\ peekH    = PeekIdle
    /\ statusH  = [pc |-> "idle", queue_length |-> 0]
    /\ InitStream
    /\ InitGateway
    /\ InitWebhook

NextPeek ==
    \/ \E s \in PeekStarts, e \in PeekEnds : Peek(s, e)
    \/ QueueStatus

SpecPeek == InitPeek /\ [][NextPeek]_vars

\* C7: peek and queue_status leave the store as it was: same content, same
\* length, and every following pop returns what it would have returned.
C7_PeekNoSideEffect ==
    [][((\E s \in PeekStarts, e \in PeekEnds : Peek(s, e)) \/ QueueStatus) =>
          /\ queue' = queue
          /\ LLen(queue').reply = LLen(queue).reply
          /\ \A c \in PopCounts : PipelineExecute(queue', c) = PipelineExecute(queue, c)
      ]_vars

\* A peek has returned envelopes and queue_status the length of the store.
C7_Witness ==
    /\ peekH.pc = "returned" /\ peekH.count > 0
    /\ statusH.pc = "returned" /\ statusH.queue_length = Len(queue)
    /\ Len(queue) = peekH.n /\ Len(queue) >= 2

PeekWindowMax == PeekEndMax + 1

\* C8: peek(start, end) with end <= 99 returns at most 100 envelopes, the
\* newest first, and an empty sequence without an error on an empty store.
C8_PeekBoundedNewestFirst ==
    /\ peekH.pc = "returned" =>
          /\ Len(peekH.msgs) <= PeekWindowMax
          /\ \A i, j \in 1..Len(peekH.msgs) : i < j => peekH.msgs[i].id > peekH.msgs[j].id
          /\ peekH.n = 0 => peekH.msgs = <<>>
    /\ peekH.n = 0 => peekH.pc # "failed"

(***************************************************************************)
(* SpecStream: concurrent appends to the stream and a paginating reader.   *)
(***************************************************************************)
NextStream ==
    \/ Tick
    \/ \E a \in Appenders : AppendCall(a)
    \/ \E a \in Appenders : AppendStore(a)
    \/ \E c \in ReadCounts : StreamRead(c)
    \/ StreamReadFail

SpecStream == Init /\ [][NextStream]_vars

\* C5: the ids the store hands out are unique and strictly increasing in
\* ingestion order, whatever the interleaving of the append calls.
C5_IdsStrictlyIncreasing ==
    /\ \A i, j \in 1..Len(stream) : i < j => IdLess(stream[i].id, stream[j].id)
    /\ \A a, b \in Appenders :
          (a # b /\ appH[a].pc = "returned" /\ appH[b].pc = "returned") =>
              appH[a].id # appH[b].id
    /\ \A a \in Appenders :
          appH[a].pc = "returned" => \E i \in 1..Len(stream) : stream[i].id = appH[a].id

\* Both appenders got their ids within the same clock millisecond, after an
\* earlier append.
C5_Witness ==
    /\ appH["a1"].pc = "returned" /\ appH["a2"].pc = "returned"
    /\ appH["a1"].id[1] = appH["a2"].id[1]
    /\ Len(stream) >= 3

\* C6: reading from "0" and passing each time the id of the last envelope
\* read, the results put together are the stream's envelopes, each once and
\* in append order; a read that comes back empty has covered all of them;
\* no read removes or changes an entry.
C6_PaginationCoversOnce ==
    /\ Len(readH.seen) <= Len(stream)
    /\ readH.seen = SubSeq(stream, 1, Len(readH.seen))
    /\ readH.emptyAt >= 0 => Len(readH.seen) >= readH.emptyAt

\* The reader went through a stream of three entries in more than one page.
C6_Witness ==
    /\ Len(stream) >= 3
    /\ readH.seen = stream
    /\ readH.emptyAt = Len(stream)
    /\ readH.cursor = stream[Len(stream)].id
    /\ readH.pages = 2

(***************************************************************************)
(* SpecGateway: health checks and connection-bound requests against a      *)
(* connector and a store that answer, fail or time out.                    *)
(***************************************************************************)
NextGateway ==
    \/ \E ping \in PingOutcomes : HealthRedisProbe(ping)
    \/ \E o \in ConnOutcomes : HealthBaileysProbe(o)
    \/ HealthReturn
    \/ \E op \in ConnectionOps, o \in ConnOutcomes : ConnectionOp(op, o)

SpecGateway == Init /\ [][NextGateway]_vars

ConnSucceeded(o) == o.kind = "ok" /\ o.json

\* C9: health() never raises, whatever the two probes do; its report says
\* healthy exactly when both probes succeeded and ok for a dependency exactly
\* when that dependency's probe succeeded; a failed store probe is followed
\* by the connector probe all the same.
C9_HealthNeverRaises ==
    /\ healthH.pc # "raised"
    /\ healthH.pc = "redis_probed" => \A o \in ConnOutcomes : ENABLED HealthBaileysProbe(o)
    /\ healthH.pc = "baileys_probed" => ENABLED HealthReturn
    /\ healthH.pc = "returned" =>
          /\ healthH.conn \in ConnOutcomes
          /\ healthH.report.status \in {"healthy", "degraded"}
          /\ healthH.report.status = "healthy" <=>
                 (healthH.ping = "ok" /\ ConnSucceeded(healthH.conn))
          /\ healthH.report.redis = "ok" <=> healthH.ping = "ok"
          /\ healthH.report.redis \in {"ok", "error"}
          /\ healthH.report.baileys = "ok" <=> ConnSucceeded(healthH.conn)
          /\ healthH.report.baileys \in {"ok", "error"}

\* The store probe failed, the connector probe ran and succeeded, and the
\* report says so.
C9_Witness ==
    /\ healthH.pc = "returned"
    /\ healthH.ping = "error"
    /\ ConnSucceeded(healthH.conn)
    /\ healthH.report = [status |-> "degraded", redis |-> "error", baileys |-> "ok"]

\* C10: when the connector is unreachable or answers with an error, every
\* connection-bound operation answers its caller with service unavailable.
C10_ConnectorDownIs503 ==
    (opH.pc = "done" /\ opH.outcome.kind # "ok") => opH.status = Unavailable

(***************************************************************************)
(* SpecWebhook: one event, one subscriber, an endpoint that fails its      *)
(* first k attempts.                                                       *)
(***************************************************************************)
NextWebhook ==
    \/ \E k \in 0..MaxAttempts : Schedule(k)
    \/ DeliverTick
    \/ AttemptSucceeds
    \/ AttemptFails
    \/ AttemptTimesOut
    \/ BackoffTick
    \/ Retry

SpecWebhook == Init /\ [][NextWebhook]_vars

StrictlyIncreasing(seq) == \A i, j \in 1..Len(seq) : i < j => seq[i] < seq[j]

\* C11: for an endpoint that fails its first k attempts, k below the cap, and
\* then succeeds, the dispatcher makes exactly k+1 attempts, records exactly
\* one successful delivery, makes no attempt after the success, never gives
\* the event up, and the backoff intervals between consecutive attempts are
\* strictly increasing.
C11_RetryUntilSuccess ==
    hookH.k < MaxAttempts =>
        /\ hookH.attempts <= hookH.k + 1
        /\ hookH.pc # "Exhausted"
        /\ hookH.delivered = (IF hookH.pc = "Acked" THEN 1 ELSE 0)
        /\ StrictlyIncreasing(hookH.intervals)
        /\ hookH.pc = "Acked" =>
              /\ hookH.attempts = hookH.k + 1
              /\ Len(hookH.intervals) = hookH.k
              /\ ~ENABLED Retry
              /\ ~ENABLED AttemptSucceeds
              /\ ~ENABLED AttemptFails
              /\ ~ENABLED AttemptTimesOut

\* The endpoint failed twice and succeeded on the third attempt.
C11_Witness ==
    /\ hookH.pc = "Acked"
    /\ hookH.k = 2
    /\ hookH.attempts = 3
    /\ hookH.delivered = 1
    /\ Len(hookH.intervals) = 2
    /\ hookH.intervals[1] < hookH.intervals[2]

====
